---------------------------- MODULE Spec2Model ----------------------------
(***************************************************************************)
(* Model of biothings/utils/backend.py: the document backends              *)
(* DocMemoryBackend, DocMongoBackend, DocESBackend and DocCouchDBBackend,  *)
(* each driven by a single synchronous caller.                             *)
(*                                                                         *)
(* A document is a function from field names to values; the key field     *)
(* "_id" is always present.  An operation is one action: it runs the whole *)
(* method and records the call (operation, arguments, outcome) in `last`;  *)
(* Return is the caller taking the outcome before its next call.           *)
(***************************************************************************)
EXTENDS Integers, Sequences, FiniteSets, TLC

VARIABLES
    backend,        \* the class of the backend under test (its `name`)
    python,         \* major version of the interpreter running the module
    utils_es,       \* a top-level module utils.es can be imported
    target_dict,    \* DocMemoryBackend.target_dict: id -> document
    held,           \* DocMemoryBackend: ids whose stored dict object the caller references too
    collection,     \* DocMongoBackend.target_collection: documents in natural order
    _target_db,     \* DocMongoBackend._target_db: the database handle, or None
    _target_db_provider,  \* DocMongoBackend._target_db_provider: is it set, and how often was it invoked
    db_exists,      \* DocCouchDBBackend: the database db_name exists on the server
    target_db,      \* DocCouchDBBackend.target_db: id -> document of that database
    _doc_cache,     \* DocCouchDBBackend._doc_cache: id -> document
    updated,        \* DocCouchDBBackend: update was called since construction or the last finalize
    pending,        \* DocCouchDBBackend, a record kept for the caller where tracked: patches is
                    \* id -> the patches update was given for it while the store held
                    \* it, merged in call order, since the last finalize or drop
    es_mapping,     \* DocESBackend: the index holds a mapping of the document type
    es_index,       \* DocESBackend: id -> document of the index behind target_esidxer
    feeder,         \* DocESBackend: the iterator query handed to the caller
    last            \* the call the caller made last, with its outcome

env == <<backend, python, utils_es>>
memoryVars == <<target_dict, held>>
mongoVars == <<collection>>
providerVars == <<_target_db, _target_db_provider>>
couchVars == <<db_exists, target_db, _doc_cache, updated, pending>>
esVars == <<es_mapping, es_index, feeder>>
vars == <<backend, python, utils_es, target_dict, held, collection, _target_db,
          _target_db_provider, db_exists, target_db, _doc_cache, updated, pending,
          es_mapping, es_index, feeder, last>>

---------------------------------------------------------------------------
(* Bounds of the model *)

\* longest document batch handed to insert / update
MaxDocs == 2
\* longest id list handed to mget_from_ids
MaxMget == 3
\* longest id list handed to count_from_ids / remove_from_ids
MaxIds == 5
\* largest chunk size (step) tried
MaxStep == 3
\* most fields in one slot (add, update, delete, extra) of a diff
MaxSlot == 1

\* the interpreters the module runs under (it uses dict.iteritems, gone in 3,
\* and the keyword argument async=True, a syntax error from 3.7 on)
PythonVersions == {2, 3}

Ids == {"A", "B"}               \* ids documents are stored under
QueryIds == Ids \cup {"Z"}      \* ids asked for; "Z" is never stored
Fields == {"x", "y", "z"}
Values == {1, 2}

---------------------------------------------------------------------------
(* Documents (python dicts) *)

\* all field maps over Fields with at most n fields
FieldMaps(n) ==
    UNION {[S -> Values] : S \in {T \in SUBSET Fields : Cardinality(T) <= n}}

EmptyMap == [f \in {} |-> 0]

\* dict.update: d with every key of p set to p's value
Merge(d, p) ==
    [f \in DOMAIN d \cup DOMAIN p |-> IF f \in DOMAIN p THEN p[f] ELSE d[f]]

\* d without the keys in ks
Without(d, ks) == [f \in DOMAIN d \ ks |-> d[f]]

\* the document {"_id": id, **body}
Doc(id, body) ==
    [f \in DOMAIN body \cup {"_id"} |-> IF f = "_id" THEN id ELSE body[f]]

\* sequences over S of length 0..n
SeqsUpTo(S, n) == UNION {[1..k -> S] : k \in 0..n}

\* ids[i:i+step] with a 0-based i, as python slices
Slice(s, i, step) ==
    LET hi == IF i + step < Len(s) THEN i + step ELSE Len(s)
    IN  [k \in 1..(hi - i) |-> s[i + k]]

---------------------------------------------------------------------------
(* Outcomes of a call *)

Ok(v) == [kind |-> "ok", val |-> v]
None == [kind |-> "none", val |-> "None"]
Raise(e) == [kind |-> "raise", val |-> e]

NoCall == [op |-> "idle"]

\* the record of pending patches: not kept, and kept with nothing pending
Untracked == [tracked |-> FALSE, patches |-> <<>>]
NonePending == [tracked |-> TRUE, patches |-> <<>>]

\* Python's None as a value held in an attribute or passed as an option
PyNone == "None"

\* no iterator of query results is in the caller's hands
NoFeeder == [live |-> FALSE, hits |-> <<>>]

---------------------------------------------------------------------------
(* The document store behind DocMongoBackend (pymongo's collection) *)

\* the ids of the documents of a collection
IdsOf(coll) == {coll[i]["_id"] : i \in DOMAIN coll}

\* collection.find({'_id': {'$in': ids}}): the matching documents, in the
\* collection's natural order
find_in(coll, idset) == SelectSeq(coll, LAMBDA d : d["_id"] \in idset)

\* collection.find_one({'_id': id}): the document, or None
find_one(coll, id) ==
    LET cur == find_in(coll, {id})
    IN  IF cur = <<>> THEN None ELSE Ok(cur[1])

\* the elements of a sequence, as a set
Range_(s) == {s[i] : i \in DOMAIN s}

\* collection.insert_many(documents), ordered: documents are written one by
\* one and the first duplicate key stops the batch with an error; an empty
\* batch is refused.  [coll, n (inserted ids), err]
RECURSIVE insert_ordered(_, _, _)
insert_ordered(coll, docs, n) ==
    IF docs = <<>> THEN [coll |-> coll, n |-> n, err |-> FALSE]
    ELSE IF Head(docs)["_id"] \in IdsOf(coll)
         THEN [coll |-> coll, n |-> n, err |-> TRUE]
         ELSE insert_ordered(Append(coll, Head(docs)), Tail(docs), n + 1)

insert_many(coll, docs) ==
    IF docs = <<>> THEN [coll |-> coll, n |-> 0, err |-> TRUE]
    ELSE insert_ordered(coll, docs, 0)

\* DocMongoBackend.insert: the count of inserted ids; when insert_many
\* raised, the handler pickles the exception into the file "err" of the
\* working directory and falls off the end (None).  dumped: that file could
\* be opened and written; when it could not, the handler's own error leaves
\* the method
Mongo_insert(coll, docs, dumped) ==
    LET res == insert_many(coll, docs)
    IN  [coll |-> res.coll,
         ret |-> IF ~res.err THEN Ok(res.n)
                 ELSE IF dumped THEN None ELSE Raise("IOError")]

\* bulk.execute() of the ordered operations find({'_id': doc['_id']})
\* [.upsert()] .update({'$set': doc}), one per document, in order
RECURSIVE bulk_execute(_, _, _, _)
bulk_execute(coll, docs, upsert, res) ==
    IF docs = <<>> THEN [coll |-> coll, res |-> res]
    ELSE LET doc == Head(docs)
             hit == {i \in DOMAIN coll : coll[i]["_id"] = doc["_id"]}
         IN  IF hit # {}
             THEN LET i == CHOOSE j \in hit : \A k \in hit : j <= k
                  IN  bulk_execute([coll EXCEPT ![i] = Merge(@, doc)], Tail(docs), upsert,
                                   [res EXCEPT !.nMatched = @ + 1])
             ELSE IF upsert
                  THEN bulk_execute(Append(coll, doc), Tail(docs), upsert,
                                    [res EXCEPT !.nUpserted = @ + 1])
                  ELSE bulk_execute(coll, Tail(docs), upsert, res)

\* faulty variant: update that upserts whatever the flag says
Mongo_update_always_upsert(coll, docs, upsert) ==
    IF docs = <<>> THEN [coll |-> coll, ret |-> Raise("InvalidOperation")]
    ELSE LET out == bulk_execute(coll, docs, TRUE, [nMatched |-> 0, nUpserted |-> 0])
         IN  [coll |-> out.coll, ret |-> Ok(out.res.nMatched + out.res.nUpserted)]

\* DocMongoBackend.update(docs, upsert): nMatched + nUpserted; executing a
\* bulk with no operation raises InvalidOperation
Mongo_update(coll, docs, upsert) ==
    IF docs = <<>> THEN [coll |-> coll, ret |-> Raise("InvalidOperation")]
    ELSE LET out == bulk_execute(coll, docs, upsert, [nMatched |-> 0, nUpserted |-> 0])
         IN  [coll |-> out.coll, ret |-> Ok(out.res.nMatched + out.res.nUpserted)]

\* faulty variant: an update document without '$unset'
diff_updates_no_unset(diff, extra) ==
    LET _add_d == Merge(diff.add, diff.update)
        _set == IF extra # EmptyMap THEN Merge(_add_d, extra) ELSE _add_d
        withSet == IF _add_d # EmptyMap \/ extra # EmptyMap THEN {"$set"} ELSE {}
    IN  [k \in withSet |-> _set]

\* the update document update_diff builds: '$set' holds add, then update,
\* then extra merged in that order; '$unset' holds the deleted fields
diff_updates(diff, extra) ==
    LET _add_d == Merge(diff.add, diff.update)
        _set == IF extra # EmptyMap THEN Merge(_add_d, extra) ELSE _add_d
        withSet == IF _add_d # EmptyMap \/ extra # EmptyMap THEN {"$set"} ELSE {}
        withUnset == IF diff.delete # {} THEN {"$unset"} ELSE {}
    IN  [k \in withSet \cup withUnset |->
            IF k = "$set" THEN _set ELSE [f \in diff.delete |-> 1]]

\* the fields an update document writes with operator k
UpdPaths(upd, k) == IF k \in DOMAIN upd THEN DOMAIN upd[k] ELSE {}

\* a document after '$set' and '$unset' of an update document
ApplyUpdate(d, upd) ==
    LET set == IF "$set" \in DOMAIN upd THEN Merge(d, upd["$set"]) ELSE d
    IN  Without(set, UpdPaths(upd, "$unset"))

\* collection.update_one({'_id': id}, upd, upsert=False).modified_count:
\* the driver refuses an empty update document (ValueError), the server one
\* that sets and unsets the same field (WriteError); otherwise the first
\* match is rewritten and counts as modified when it changed
update_one(coll, id, upd) ==
    IF DOMAIN upd = {} THEN [coll |-> coll, ret |-> Raise("ValueError")]
    ELSE IF UpdPaths(upd, "$set") \cap UpdPaths(upd, "$unset") # {}
    THEN [coll |-> coll, ret |-> Raise("WriteError")]
    ELSE LET hit == {i \in DOMAIN coll : coll[i]["_id"] = id}
         IN  IF hit = {} THEN [coll |-> coll, ret |-> Ok(0)]
             ELSE LET i == CHOOSE j \in hit : \A k \in hit : j <= k
                      new == ApplyUpdate(coll[i], upd)
                  IN  [coll |-> [coll EXCEPT ![i] = new],
                       ret |-> Ok(IF new = coll[i] THEN 0 ELSE 1)]

\* DocMongoBackend.update_diff(diff, extra)
Mongo_update_diff(coll, diff, extra) ==
    update_one(coll, diff["_id"], diff_updates(diff, extra))

\* DocMongoBackend.get_id_list
Mongo_get_id_list(coll) == [i \in DOMAIN coll |-> coll[i]["_id"]]

\* faulty variant: mget_from_ids that returns the cursor's documents as they come
Mongo_mget_cursor_order(coll, ids) == find_in(coll, Range_(ids))

\* DocMongoBackend.mget_from_ids: the cursor's documents keyed by id, then
\* listed in the order of ids
Mongo_mget_from_ids(coll, ids) ==
    LET cur == find_in(coll, Range_(ids))
        _d == [id \in IdsOf(cur) |-> cur[CHOOSE i \in DOMAIN cur : cur[i]["_id"] = id]]
        hits == SelectSeq(ids, LAMBDA id : id \in DOMAIN _d)
    IN  [i \in DOMAIN hits |-> _d[hits[i]]]

\* the error of a store call that fails (a pymongo.errors exception)
StoreError == Raise("PyMongoError")

\* DocMongoBackend.count_from_ids: one count query per chunk ids[i:i+step],
\* summed; the query number fail (if there is one) raises, and nothing
\* catches it.  [total_cnt, calls (the chunks queried, in order),
\* failed_chunk (the number of the query that raised, or 0), ret]
RECURSIVE count_chunks(_, _, _, _, _, _)
count_chunks(coll, ids, step, i, acc, fail) ==
    IF i >= Len(ids) THEN [acc EXCEPT !.ret = Ok(acc.total_cnt)]
    ELSE LET _ids == Slice(ids, i, step)
             _cnt == Len(find_in(coll, Range_(_ids)))
         IN  IF Len(acc.calls) + 1 = fail
             THEN [acc EXCEPT !.calls = Append(acc.calls, _ids),
                              !.failed_chunk = fail,
                              !.ret = StoreError]
             ELSE count_chunks(coll, ids, step, i + step,
                               [acc EXCEPT !.total_cnt = acc.total_cnt + _cnt,
                                           !.calls = Append(acc.calls, _ids)],
                               fail)

\* faulty variant: count_from_ids that catches the error of a chunk query,
\* leaves that chunk out of the total and goes on with the next chunk
RECURSIVE count_chunks_skipping(_, _, _, _, _, _)
count_chunks_skipping(coll, ids, step, i, acc, fail) ==
    IF i >= Len(ids) THEN [acc EXCEPT !.ret = Ok(acc.total_cnt)]
    ELSE LET _ids == Slice(ids, i, step)
             _cnt == Len(find_in(coll, Range_(_ids)))
         IN  IF Len(acc.calls) + 1 = fail
             THEN count_chunks_skipping(coll, ids, step, i + step,
                                        [acc EXCEPT !.calls = Append(acc.calls, _ids),
                                                    !.failed_chunk = fail],
                                        fail)
             ELSE count_chunks_skipping(coll, ids, step, i + step,
                                        [acc EXCEPT !.total_cnt = acc.total_cnt + _cnt,
                                                    !.calls = Append(acc.calls, _ids)],
                                        fail)

Mongo_count_skip_failed(coll, ids, step, fail) ==
    count_chunks_skipping(coll, ids, step, 0,
                          [total_cnt |-> 0, calls |-> <<>>, failed_chunk |-> 0, ret |-> None],
                          fail)

Mongo_count_from_ids(coll, ids, step, fail) ==
    count_chunks(coll, ids, step, 0,
                 [total_cnt |-> 0, calls |-> <<>>, failed_chunk |-> 0, ret |-> None],
                 fail)

\* collection.remove({'_id': {'$in': ids}})
remove_in(coll, idset) == SelectSeq(coll, LAMBDA d : d["_id"] \notin idset)

\* DocMongoBackend.remove_from_ids: one remove per chunk; the remove number
\* fail (if there is one) is rejected by the store and raises, and nothing
\* catches it.  [coll, calls (the chunks sent, in order), failed_chunk (the
\* number of the remove that raised, or 0), ret]
RECURSIVE remove_chunks(_, _, _, _, _, _)
remove_chunks(coll, ids, step, i, calls, fail) ==
    IF i >= Len(ids)
    THEN [coll |-> coll, calls |-> calls, failed_chunk |-> 0, ret |-> None]
    ELSE LET _ids == Slice(ids, i, step)
         IN  IF Len(calls) + 1 = fail
             THEN [coll |-> coll, calls |-> Append(calls, _ids), failed_chunk |-> fail,
                   ret |-> StoreError]
             ELSE remove_chunks(remove_in(coll, Range_(_ids)), ids, step, i + step,
                                Append(calls, _ids), fail)

\* faulty variant: remove_from_ids that stops after the first chunk
Mongo_remove_first_chunk(coll, ids, step, fail) ==
    IF ids = <<>> THEN [coll |-> coll, calls |-> <<>>, failed_chunk |-> 0, ret |-> None]
    ELSE IF fail = 1
    THEN [coll |-> coll, calls |-> <<Slice(ids, 0, step)>>, failed_chunk |-> 1,
          ret |-> StoreError]
    ELSE [coll |-> remove_in(coll, Range_(Slice(ids, 0, step))),
          calls |-> <<Slice(ids, 0, step)>>, failed_chunk |-> 0, ret |-> None]

Mongo_remove_from_ids(coll, ids, step, fail) == remove_chunks(coll, ids, step, 0, <<>>, fail)

---------------------------------------------------------------------------
(* What the caller hands to DocMongoBackend *)

\* bodies of the documents the caller inserts
NewBodies == {EmptyMap, ("y" :> 1) @@ ("z" :> 2)}
NewDocs == {Doc(id, b) : id \in Ids, b \in NewBodies}

\* documents handed to update(docs, upsert)
SetDocs == {Doc(id, b) : id \in Ids, b \in {"x" :> 1, "y" :> 2}}

\* diffs as diff_doc returns them: add holds new fields, update the fields
\* whose value changed, delete the fields that went away (three disjoint
\* sets of fields)
DiffIds == {"A"}
AddMaps == {m \in FieldMaps(MaxSlot) : \A f \in DOMAIN m : m[f] = 1}
UpdMaps == {m \in FieldMaps(MaxSlot) : \A f \in DOMAIN m : m[f] = 2}
DelSets == {S \in SUBSET Fields : Cardinality(S) <= MaxSlot}
Diffs ==
    {d \in [_id : DiffIds, add : AddMaps, update : UpdMaps, delete : DelSets] :
        /\ DOMAIN d.add \cap DOMAIN d.update = {}
        /\ DOMAIN d.add \cap d.delete = {}
        /\ DOMAIN d.update \cap d.delete = {}}

\* the caller's common fields (extra): none, or a value for "x"
Extras == {m \in FieldMaps(1) : DOMAIN m \subseteq {"x"}}

\* id lists for mget_from_ids, and for the chunked count_from_ids and
\* remove_from_ids (longer, over a stored and a never stored id)
MgetLists == SeqsUpTo(QueryIds, MaxMget)
ChunkIds == {"A", "Z"}
IdLists == SeqsUpTo(ChunkIds, MaxIds)
Steps == 1..MaxStep

\* the store call of a chunked operation that fails: none (0), or the call
\* of that number, which the operation gets to if nothing fails before it
MaxFail == 2
Fails(ids, step) == {fail \in 0..MaxFail : fail = 0 \/ (fail - 1) * step < Len(ids)}

---------------------------------------------------------------------------
(* DocMongoBackend's database handle *)

\* the database handle, given at construction or returned by the provider
Handle == "db"

\* _target_db_provider when the backend was constructed with a handle (the
\* attribute is not set), and right after construction with a callable
NoProvider == [set |-> FALSE, calls |-> 0]
NewProvider == [set |-> TRUE, calls |-> 0]

\* what one invocation of the provider does: it returns the handle, it
\* returns None, or it raises (the connection cannot be opened)
ProviderOutcomes == {Handle, PyNone, "raise"}

\* most invocations of the provider the model follows
MaxProviderCalls == 2

\* faulty variant: a target_db property that asks the provider on every access
Mongo_target_db_uncached(db, provider, outcome) ==
    IF ~provider.set
    THEN [db |-> db, provider |-> provider, invoked |-> FALSE, ret |-> Ok(db)]
    ELSE LET asked == [provider EXCEPT !.calls = @ + 1]
         IN  IF outcome = "raise"
             THEN [db |-> db, provider |-> asked, invoked |-> TRUE,
                   ret |-> Raise("ConnectionFailure")]
             ELSE [db |-> outcome, provider |-> asked, invoked |-> TRUE,
                   ret |-> IF outcome = PyNone THEN None ELSE Ok(outcome)]

\* DocMongoBackend.target_db (property): while _target_db is None, invoke
\* the provider and keep what it returns; return _target_db.
\* [db (_target_db), provider, invoked (the provider was called), ret]
Mongo_target_db(db, provider, outcome) ==
    IF db # PyNone
    THEN [db |-> db, provider |-> provider, invoked |-> FALSE, ret |-> Ok(db)]
    ELSE IF ~provider.set
    THEN [db |-> db, provider |-> provider, invoked |-> FALSE,
          ret |-> Raise("AttributeError")]
    ELSE LET asked == [provider EXCEPT !.calls = @ + 1]
         IN  IF outcome = "raise"
             THEN [db |-> db, provider |-> asked, invoked |-> TRUE,
                   ret |-> Raise("ConnectionFailure")]
             ELSE [db |-> outcome, provider |-> asked, invoked |-> TRUE,
                   ret |-> IF outcome = PyNone THEN None ELSE Ok(outcome)]

---------------------------------------------------------------------------
(* DocMongoBackend: one action per method *)

Called(op, arg, ret) == [op |-> op, arg |-> arg, ret |-> ret]

DocMongoBackend_insert ==
    /\ backend = "mongo" /\ last = NoCall
    /\ \E docs \in SeqsUpTo(NewDocs, MaxDocs), dumped \in BOOLEAN :
         LET out == Mongo_insert(collection, docs, dumped)
         IN  /\ collection' = out.coll
             /\ last' = Called("insert", [docs |-> docs], out.ret)
    /\ UNCHANGED <<env, providerVars, esVars, memoryVars, couchVars>>

DocMongoBackend_update ==
    /\ backend = "mongo" /\ last = NoCall
    /\ \E docs \in SeqsUpTo(SetDocs, MaxDocs), upsert \in BOOLEAN :
         LET out == Mongo_update(collection, docs, upsert)
         IN  /\ collection' = out.coll
             /\ last' = Called("update", [docs |-> docs, upsert |-> upsert], out.ret)
    /\ UNCHANGED <<env, providerVars, esVars, memoryVars, couchVars>>

DocMongoBackend_update_diff ==
    /\ backend = "mongo" /\ last = NoCall
    /\ \E diff \in Diffs, extra \in Extras :
         LET out == Mongo_update_diff(collection, diff, extra)
         IN  /\ collection' = out.coll
             /\ last' = Called("update_diff", [diff |-> diff, extra |-> extra], out.ret)
    /\ UNCHANGED <<env, providerVars, esVars, memoryVars, couchVars>>

DocMongoBackend_drop ==
    /\ backend = "mongo" /\ last = NoCall
    /\ collection' = <<>>
    /\ last' = Called("drop", [none |-> 0], None)
    /\ UNCHANGED <<env, providerVars, esVars, memoryVars, couchVars>>

DocMongoBackend_get_id_list ==
    /\ backend = "mongo" /\ last = NoCall
    /\ last' = Called("get_id_list", [none |-> 0], Ok(Mongo_get_id_list(collection)))
    /\ UNCHANGED <<env, providerVars, esVars, memoryVars, mongoVars, couchVars>>

DocMongoBackend_get_from_id ==
    /\ backend = "mongo" /\ last = NoCall
    /\ \E id \in QueryIds :
         last' = Called("get_from_id", [id |-> id], find_one(collection, id))
    /\ UNCHANGED <<env, providerVars, esVars, memoryVars, mongoVars, couchVars>>

DocMongoBackend_mget_from_ids ==
    /\ backend = "mongo" /\ last = NoCall
    /\ \E ids \in MgetLists :
         last' = Called("mget_from_ids", [ids |-> ids],
                        Ok(Mongo_mget_from_ids(collection, ids)))
    /\ UNCHANGED <<env, providerVars, esVars, memoryVars, mongoVars, couchVars>>

DocMongoBackend_count_from_ids ==
    /\ backend = "mongo" /\ last = NoCall
    /\ \E ids \in IdLists, step \in Steps :
       \E fail \in Fails(ids, step) :
         LET out == Mongo_count_from_ids(collection, ids, step, fail)
         IN  last' = Called("count_from_ids", [ids |-> ids, step |-> step], out.ret)
                        @@ [calls |-> out.calls, failed_chunk |-> out.failed_chunk]
    /\ UNCHANGED <<env, providerVars, esVars, memoryVars, mongoVars, couchVars>>

DocMongoBackend_remove_from_ids ==
    /\ backend = "mongo" /\ last = NoCall
    /\ \E ids \in IdLists, step \in Steps :
       \E fail \in Fails(ids, step) :
         LET out == Mongo_remove_from_ids(collection, ids, step, fail)
         IN  /\ collection' = out.coll
             /\ last' = Called("remove_from_ids", [ids |-> ids, step |-> step], out.ret)
                            @@ [calls |-> out.calls, failed_chunk |-> out.failed_chunk]
    /\ UNCHANGED <<env, providerVars, esVars, memoryVars, couchVars>>

\* an access of backend.target_db
DocMongoBackend_target_db ==
    /\ backend = "mongo" /\ last = NoCall
    /\ \E outcome \in ProviderOutcomes :
         LET out == Mongo_target_db(_target_db, _target_db_provider, outcome)
         IN  /\ out.provider.calls <= MaxProviderCalls
             /\ _target_db' = out.db
             /\ _target_db_provider' = out.provider
             /\ last' = Called("target_db", [none |-> 0], out.ret)
                          @@ [invoked |-> out.invoked]
    /\ UNCHANGED <<env, esVars, memoryVars, mongoVars, couchVars>>

\* the caller takes the outcome of its call; its next call can start
Return ==
    /\ last # NoCall
    /\ last' = NoCall
    /\ UNCHANGED <<env, providerVars, esVars, memoryVars, mongoVars, couchVars>>

\* the state after construction, leaving DocMongoBackend's database handle
\* aside: an empty target, no call made yet
InitTarget(name) ==
    /\ backend = name
    /\ python \in PythonVersions
    /\ utils_es \in (IF name = "es" THEN BOOLEAN ELSE {FALSE})
    /\ es_mapping = FALSE
    /\ es_index = EmptyMap
    /\ feeder = NoFeeder
    /\ target_dict = EmptyMap
    /\ held = {}
    /\ collection = <<>>
    /\ db_exists = TRUE
    /\ target_db = EmptyMap
    /\ _doc_cache = EmptyMap
    /\ updated = FALSE
    /\ last = NoCall

\* the state after construction; DocMongoBackend is given a database handle
InitAs(name) ==
    /\ InitTarget(name)
    /\ _target_db = Handle
    /\ _target_db_provider = NoProvider
    /\ pending = Untracked

InitMongo == InitAs("mongo")

MongoNext ==
    \/ DocMongoBackend_insert
    \/ DocMongoBackend_update
    \/ DocMongoBackend_update_diff
    \/ DocMongoBackend_drop
    \/ DocMongoBackend_get_id_list
    \/ DocMongoBackend_get_from_id
    \/ DocMongoBackend_mget_from_ids
    \/ DocMongoBackend_count_from_ids
    \/ DocMongoBackend_remove_from_ids
    \/ DocMongoBackend_target_db
    \/ Return

SpecMongo == InitMongo /\ [][MongoNext]_vars

\* DocMongoBackend constructed with a callable in place of the handle: the
\* provider is stored, _target_db is None
InitMongoLazy ==
    /\ InitTarget("mongo")
    /\ _target_db = PyNone
    /\ _target_db_provider = NewProvider
    /\ pending = Untracked

\* calls on the backend so constructed: accesses of target_db among writes,
\* reads and drops of the collection
MongoLazyNext ==
    \/ DocMongoBackend_target_db
    \/ DocMongoBackend_insert
    \/ DocMongoBackend_get_id_list
    \/ DocMongoBackend_get_from_id
    \/ DocMongoBackend_drop
    \/ Return

SpecMongoLazy == InitMongoLazy /\ [][MongoLazyNext]_vars

---------------------------------------------------------------------------
(* DocMemoryBackend *)

\* faulty variant: insert that stores the first document of the batch only
Memory_insert_first(dict, doc_li) ==
    IF doc_li = <<>> THEN dict
    ELSE [id \in DOMAIN dict \cup {doc_li[1]["_id"]} |->
             IF id = doc_li[1]["_id"] THEN doc_li[1] ELSE dict[id]]

\* faulty variant: insert that keeps the document first stored under an id
Memory_insert_keep_first(dict, doc_li) ==
    LET ids == {doc_li[i]["_id"] : i \in DOMAIN doc_li}
        first(id) == CHOOSE i \in DOMAIN doc_li :
                        /\ doc_li[i]["_id"] = id
                        /\ \A j \in DOMAIN doc_li : doc_li[j]["_id"] = id => i <= j
    IN  [id \in DOMAIN dict \cup ids |->
            IF id \in DOMAIN dict THEN dict[id] ELSE doc_li[first(id)]]

\* DocMemoryBackend.insert: target_dict[doc['_id']] = doc, document by document
RECURSIVE Memory_insert(_, _)
Memory_insert(dict, doc_li) ==
    IF doc_li = <<>> THEN dict
    ELSE LET doc == Head(doc_li)
         IN  Memory_insert([id \in DOMAIN dict \cup {doc["_id"]} |->
                               IF id = doc["_id"] THEN doc ELSE dict[id]],
                           Tail(doc_li))

\* DocMemoryBackend.update: merge extra_doc into the stored document, if any
Memory_update(dict, id, extra_doc) ==
    LET current_doc == IF id \in DOMAIN dict THEN dict[id] ELSE EmptyMap
    IN  IF current_doc # EmptyMap      \* `if current_doc:` (None and {} are false)
        THEN [dict EXCEPT ![id] = Merge(current_doc, extra_doc)]
        ELSE dict

\* DocMemoryBackend.get_from_id: target_dict[id], a KeyError when absent
Memory_get_from_id(dict, id) ==
    IF id \in DOMAIN dict THEN Ok(dict[id]) ELSE Raise("KeyError")

\* field maps the caller passes as extra_doc
Patches == FieldMaps(MaxSlot)

DocMemoryBackend_insert ==
    /\ backend = "memory" /\ last = NoCall
    /\ \E doc_li \in SeqsUpTo(NewDocs, MaxDocs) :
         /\ target_dict' = Memory_insert(target_dict, doc_li)
         \* the dict stores the caller's objects themselves
         /\ held' = held \cup {doc_li[i]["_id"] : i \in DOMAIN doc_li}
         /\ last' = Called("insert", [docs |-> doc_li], None)
    /\ UNCHANGED <<env, providerVars, esVars, mongoVars, couchVars>>

DocMemoryBackend_update ==
    /\ backend = "memory" /\ last = NoCall
    /\ \E id \in QueryIds, extra_doc \in Patches :
         \* current_doc.update(extra_doc) changes the stored object in place
         /\ target_dict' = Memory_update(target_dict, id, extra_doc)
         /\ held' = held
         /\ last' = Called("update", [id |-> id, extra_doc |-> extra_doc], None)
    /\ UNCHANGED <<env, providerVars, esVars, mongoVars, couchVars>>

DocMemoryBackend_drop ==
    /\ backend = "memory" /\ last = NoCall
    /\ target_dict' = EmptyMap
    /\ held' = {}
    /\ last' = Called("drop", [none |-> 0], None)
    /\ UNCHANGED <<env, providerVars, esVars, mongoVars, couchVars>>

DocMemoryBackend_get_id_list ==
    /\ backend = "memory" /\ last = NoCall
    /\ last' = Called("get_id_list", [none |-> 0], Ok(DOMAIN target_dict))
    /\ UNCHANGED <<env, providerVars, esVars, memoryVars, mongoVars, couchVars>>

DocMemoryBackend_get_from_id ==
    /\ backend = "memory" /\ last = NoCall
    /\ \E id \in QueryIds :
         /\ last' = Called("get_from_id", [id |-> id], Memory_get_from_id(target_dict, id))
         \* the stored object itself is returned
         /\ held' = held \cup ({id} \cap DOMAIN target_dict)
    /\ UNCHANGED <<env, providerVars, esVars, target_dict, mongoVars, couchVars>>

\* the caller writes fields of a document object it references, outside
\* any call of the backend
Caller_mutates ==
    /\ backend = "memory" /\ last = NoCall
    /\ \E id \in held, fields \in Patches \ {EmptyMap} :
         /\ target_dict' = [target_dict EXCEPT ![id] = Merge(@, fields)]
         /\ last' = Called("caller_mutates", [id |-> id, fields |-> fields], None)
    /\ UNCHANGED <<env, providerVars, esVars, held, mongoVars, couchVars>>

InitMemory == InitAs("memory")

MemoryNext ==
    \/ DocMemoryBackend_insert
    \/ DocMemoryBackend_update
    \/ DocMemoryBackend_drop
    \/ DocMemoryBackend_get_id_list
    \/ DocMemoryBackend_get_from_id
    \/ Caller_mutates
    \/ Return

SpecMemory == InitMemory /\ [][MemoryNext]_vars

---------------------------------------------------------------------------
(* The replicated store behind DocCouchDBBackend (couchdb's Database) *)

\* a revision id "N-digest": the generation and a digest of the content
Rev(n, doc) == <<n, Without(doc, {"_rev"})>>

\* one document of a _bulk_docs request (Database.update): a document
\* without _rev creates its id, a document with _rev replaces the stored
\* revision it names; anything else is a conflict and leaves the store as is
bulk_doc(db, doc) ==
    LET id == doc["_id"]
    IN  IF "_rev" \notin DOMAIN doc
        THEN IF id \in DOMAIN db THEN db
             ELSE [i \in DOMAIN db \cup {id} |->
                      IF i = id THEN Merge(doc, "_rev" :> Rev(1, doc)) ELSE db[i]]
        ELSE IF id \in DOMAIN db /\ db[id]["_rev"] = doc["_rev"]
             THEN [db EXCEPT ![id] = Merge(doc, "_rev" :> Rev(doc["_rev"][1] + 1, doc))]
             ELSE db

\* Database.update(doc_li): the documents of one request, in order
RECURSIVE bulk_docs(_, _)
bulk_docs(db, doc_li) ==
    IF doc_li = <<>> THEN db ELSE bulk_docs(bulk_doc(db, Head(doc_li)), Tail(doc_li))

\* DocCouchDBBackend._db_upload: one Database.update per chunk doc_li[i:i+step].
\* [db, calls (the chunk of each request made, in order)]
RECURSIVE _db_upload(_, _, _, _, _)
_db_upload(db, doc_li, step, i, calls) ==
    IF i >= Len(doc_li) THEN [db |-> db, calls |-> calls]
    ELSE _db_upload(bulk_docs(db, Slice(doc_li, i, step)), doc_li, step, i + step,
                    Append(calls, Slice(doc_li, i, step)))

\* the nine taxids of DocCouchDBBackend.finalize
species_li == <<9606, 10090, 10116, 7227, 6239, 7955, 3702, 8364, 9823>>

\* a filter that removes the unwanted entries from the list it is looping
\* over: the entry after a removed one moves into its place and is skipped
RECURSIVE remove_while_looping(_, _)
remove_while_looping(genes, species_set) ==
    IF genes = <<>> THEN <<>>
    ELSE IF Head(genes)[1] \in species_set
    THEN <<Head(genes)>> \o remove_while_looping(Tail(genes), species_set)
    ELSE IF Tail(genes) = <<>> THEN <<>>
    ELSE <<Head(Tail(genes))>> \o remove_while_looping(Tail(Tail(genes)), species_set)

\* faulty variant: trimming that filters the genes list in place
trim_doc_in_place(gdoc, species) ==
    LET hgene == IF "homologene" \in DOMAIN gdoc THEN gdoc["homologene"] ELSE EmptyMap
        _genes == IF "genes" \in DOMAIN hgene THEN hgene["genes"] ELSE <<>>
    IN  IF hgene # EmptyMap /\ _genes # <<>>
        THEN [gdoc EXCEPT !["homologene"] =
                 [hgene EXCEPT !["genes"] = remove_while_looping(_genes, {species[i] : i \in DOMAIN species})]]
        ELSE gdoc

\* _homologene_trimming for one cached document: homologene.genes keeps the
\* entries whose first element is in species_li; a missing or empty
\* homologene, or a missing or empty genes list, is left alone
trim_doc(gdoc, species) ==
    LET species_set == Range_(species)
        hgene == IF "homologene" \in DOMAIN gdoc THEN gdoc["homologene"] ELSE EmptyMap
        _genes == IF "genes" \in DOMAIN hgene THEN hgene["genes"] ELSE <<>>
    IN  IF hgene # EmptyMap /\ _genes # <<>>
        THEN LET _genes_filtered == SelectSeq(_genes, LAMBDA g : g[1] \in species_set)
             IN  Merge(gdoc, "homologene" :> Merge(hgene, "genes" :> _genes_filtered))
        ELSE gdoc

\* DocCouchDBBackend._homologene_trimming over the whole cache
_homologene_trimming(cache, species) ==
    [gid \in DOMAIN cache |-> trim_doc(cache[gid], species)]

\* the cache after one run of _homologene_trimming under interpreter py:
\* under Python 3 a non-empty cache makes the run raise at iteritems and
\* leaves the cache as it was
trimming_run(py, cache, species) ==
    IF cache # EmptyMap /\ py = 3 THEN cache ELSE _homologene_trimming(cache, species)

\* dict.values() as a list (ids in some fixed order; the ids differ, so the
\* order of the documents does not change what the store ends up holding)
RECURSIVE ValuesOf(_)
ValuesOf(cache) ==
    IF DOMAIN cache = {} THEN <<>>
    ELSE LET id == CHOOSE i \in DOMAIN cache : TRUE
         IN  <<cache[id]>> \o ValuesOf([j \in DOMAIN cache \ {id} |-> cache[j]])

\* chunk size of _db_upload as finalize calls it (the default)
UploadStep == 10000

\* faulty variant: update that creates the cached document when the id is missing
Couch_update_upsert(exists, db, cache, id, extra_doc) ==
    LET loaded == IF cache = EmptyMap THEN db ELSE cache
    IN  [cache |-> [i \in DOMAIN loaded \cup {id} |->
                       IF i = id
                       THEN Merge(IF id \in DOMAIN loaded THEN loaded[id] ELSE "_id" :> id,
                                  extra_doc)
                       ELSE loaded[i]],
         scan |-> cache = EmptyMap,
         ret |-> None]

\* DocCouchDBBackend.update: (re)load the cache from the view _all_docs when
\* it is empty, then merge extra_doc into the cached document, if any.
\* [cache, scan (the view was queried), ret]
Couch_update(exists, db, cache, id, extra_doc) ==
    IF cache = EmptyMap /\ ~exists
    THEN [cache |-> cache, scan |-> TRUE, ret |-> Raise("ResourceNotFound")]
    ELSE LET loaded == IF cache = EmptyMap THEN db ELSE cache
             current_doc == IF id \in DOMAIN loaded THEN loaded[id] ELSE EmptyMap
         IN  [cache |-> IF current_doc # EmptyMap
                        THEN [loaded EXCEPT ![id] = Merge(current_doc, extra_doc)]
                        ELSE loaded,
              scan |-> cache = EmptyMap,
              ret |-> None]

\* DocCouchDBBackend.finalize.  [db, cache, docs (the cached documents when
\* the trimming step is over), calls (the steps taken on the store and on
\* the cache, in order: "update" per upload request, "clear" for
\* _doc_cache = {}, "commit", "compact"), uploads (the chunk of each upload
\* request), ret]
Couch_finalize(py, exists, db, cache) ==
    IF cache # EmptyMap /\ py = 3
    THEN \* dict has no iteritems
         [db |-> db, cache |-> cache, docs |-> cache, calls |-> <<>>, uploads |-> <<>>,
          ret |-> Raise("AttributeError")]
    ELSE IF cache # EmptyMap
    THEN LET trimmed == _homologene_trimming(cache, species_li)
             up == _db_upload(db, ValuesOf(trimmed), UploadStep, 0, <<>>)
         IN  IF exists
             THEN [db |-> up.db, cache |-> EmptyMap, docs |-> trimmed,
                   calls |-> [i \in DOMAIN up.calls |-> "update"]
                                \o <<"clear", "commit", "compact">>,
                   uploads |-> up.calls,
                   ret |-> None]
             ELSE [db |-> db, cache |-> trimmed, docs |-> trimmed, calls |-> <<"update">>,
                   uploads |-> <<Slice(ValuesOf(trimmed), 0, UploadStep)>>,
                   ret |-> Raise("ResourceNotFound")]
    ELSE IF exists
         THEN [db |-> db, cache |-> cache, docs |-> cache,
               calls |-> <<"commit", "compact">>, uploads |-> <<>>, ret |-> None]
         ELSE [db |-> db, cache |-> cache, docs |-> cache, calls |-> <<"commit">>,
               uploads |-> <<>>, ret |-> Raise("ResourceNotFound")]

\* DocCouchDBBackend.get_from_id: target_db[id]
Couch_get_from_id(exists, db, id) ==
    IF exists /\ id \in DOMAIN db THEN Ok(db[id]) ELSE Raise("ResourceNotFound")

---------------------------------------------------------------------------
(* What the caller hands to DocCouchDBBackend *)

\* homologene values: genes are <<taxid, gene id>> entries; 4932 and 9913
\* are not among the nine species
HMixed == "id" :> 7 @@ "genes" :> <<<<10090, 1>>, <<4932, 2>>, <<9606, 3>>>>
HForeign == "genes" :> <<<<4932, 2>>, <<9913, 4>>>>
HNoGenes == "id" :> 7

CouchNewDocs == {Doc(id, b) : id \in Ids, b \in {EmptyMap, "homologene" :> HMixed}}
CouchPatches == {"x" :> 1, "homologene" :> HForeign}

\* highest revision generation a document reaches
MaxRev == 2

---------------------------------------------------------------------------
(* DocCouchDBBackend: one action per method *)

DocCouchDBBackend_prepare ==
    /\ backend = "couchdb" /\ last = NoCall
    /\ db_exists' = TRUE
    /\ last' = Called("prepare", [none |-> 0], None)
    /\ UNCHANGED <<env, providerVars, esVars, memoryVars, mongoVars, target_db, _doc_cache,
                   updated, pending>>

DocCouchDBBackend_insert ==
    /\ backend = "couchdb" /\ last = NoCall
    /\ \E doc_li \in SeqsUpTo(CouchNewDocs, MaxDocs) :
         IF db_exists
         THEN /\ target_db' = bulk_docs(target_db, doc_li)
              /\ last' = Called("insert", [docs |-> doc_li], None)
         ELSE /\ target_db' = target_db
              /\ last' = Called("insert", [docs |-> doc_li], Raise("ResourceNotFound"))
    /\ UNCHANGED <<env, providerVars, esVars, memoryVars, mongoVars, db_exists, _doc_cache,
                   updated, pending>>

DocCouchDBBackend_update ==
    /\ backend = "couchdb" /\ last = NoCall
    /\ \E id \in QueryIds, extra_doc \in CouchPatches :
         LET out == Couch_update(db_exists, target_db, _doc_cache, id, extra_doc)
         IN  /\ _doc_cache' = out.cache
             /\ last' = Called("update", [id |-> id, extra_doc |-> extra_doc], out.ret)
                         @@ [scan |-> out.scan]
             /\ pending' = IF pending.tracked /\ db_exists /\ id \in DOMAIN target_db
                           THEN [pending EXCEPT !.patches =
                                    [i \in DOMAIN @ \cup {id} |->
                                        IF i = id
                                        THEN Merge(IF id \in DOMAIN @ THEN @[id] ELSE EmptyMap,
                                                   extra_doc)
                                        ELSE @[i]]]
                           ELSE pending
    /\ updated' = TRUE
    /\ UNCHANGED <<env, providerVars, esVars, memoryVars, mongoVars, db_exists, target_db>>

DocCouchDBBackend_drop ==
    /\ backend = "couchdb" /\ last = NoCall
    /\ db_exists' = FALSE
    /\ target_db' = EmptyMap
    /\ last' = Called("drop", [none |-> 0], None)
    /\ pending' = [pending EXCEPT !.patches = <<>>]
    /\ UNCHANGED <<env, providerVars, esVars, memoryVars, mongoVars, _doc_cache, updated>>

DocCouchDBBackend_finalize ==
    /\ backend = "couchdb" /\ last = NoCall
    /\ \A id \in DOMAIN _doc_cache : _doc_cache[id]["_rev"][1] < MaxRev
    /\ LET out == Couch_finalize(python, db_exists, target_db, _doc_cache)
       IN  /\ target_db' = out.db
           /\ _doc_cache' = out.cache
           /\ last' = Called("finalize", [none |-> 0], out.ret)
                        @@ [calls |-> out.calls, docs |-> out.docs,
                            uploads |-> out.uploads]
           /\ pending' = IF out.ret.kind = "raise" THEN pending
                         ELSE [pending EXCEPT !.patches = <<>>]
    /\ updated' = FALSE
    /\ UNCHANGED <<env, providerVars, esVars, memoryVars, mongoVars, db_exists>>

DocCouchDBBackend_get_id_list ==
    /\ backend = "couchdb" /\ last = NoCall
    /\ last' = Called("get_id_list", [none |-> 0],
                      IF db_exists THEN Ok(DOMAIN target_db) ELSE Raise("ResourceNotFound"))
    /\ UNCHANGED <<env, providerVars, esVars, memoryVars, mongoVars, couchVars>>

DocCouchDBBackend_get_from_id ==
    /\ backend = "couchdb" /\ last = NoCall
    /\ \E id \in QueryIds :
         last' = Called("get_from_id", [id |-> id],
                        Couch_get_from_id(db_exists, target_db, id))
    /\ UNCHANGED <<env, providerVars, esVars, memoryVars, mongoVars, couchVars>>

InitCouch == InitAs("couchdb")

CouchNext ==
    \/ DocCouchDBBackend_prepare
    \/ DocCouchDBBackend_insert
    \/ DocCouchDBBackend_update
    \/ DocCouchDBBackend_drop
    \/ DocCouchDBBackend_finalize
    \/ DocCouchDBBackend_get_id_list
    \/ DocCouchDBBackend_get_from_id
    \/ Return

SpecCouch == InitCouch /\ [][CouchNext]_vars

\* the same backend under Python 2 alone, where finalize can run through
InitCouchPy2 == InitCouch /\ python = 2

SpecCouchPy2 == InitCouchPy2 /\ [][CouchNext]_vars

\* the backend under Python 2 with the record of pending patches kept
InitCouchPending ==
    /\ InitTarget("couchdb") /\ python = 2
    /\ _target_db = Handle
    /\ _target_db_provider = NoProvider
    /\ pending = NonePending

SpecCouchPending == InitCouchPending /\ [][CouchNext]_vars

---------------------------------------------------------------------------
(* DocESBackend.  The indexer behind it (biothings.utils.es.ESIndexer) is   *)
(* modelled from its description: an index of documents by id, a mapping of *)
(* the document type, and a scrolling feeder of query results.              *)

\* ESIndexer.add_docs: indexing a document under a stored id overwrites it
RECURSIVE ESIndexer_add_docs(_, _)
ESIndexer_add_docs(index, doc_li) ==
    IF doc_li = <<>> THEN index
    ELSE LET doc == Head(doc_li)
         IN  ESIndexer_add_docs([id \in DOMAIN index \cup {doc["_id"]} |->
                                    IF id = doc["_id"] THEN doc ELSE index[id]],
                                Tail(doc_li))

\* ESIndexer.get(id): the document, or a null result
ESIndexer_get(index, id) == IF id \in DOMAIN index THEN Ok(index[id]) ELSE None

\* ESIndexer.doc_feeder(query=None): a lazy sequence of the matching
\* documents, here all documents of the index
ESIndexer_doc_feeder(index) == [live |-> TRUE, hits |-> ValuesOf(index)]

\* DocESBackend.drop: import IndexMissingException from utils.es, look the
\* mapping up, return when the lookup raises IndexMissingException, else
\* delete the mapping (and with it the documents of the type).
\* [mapping, index, ret]
ES_drop(importable, mapping, index) ==
    IF ~importable
    THEN [mapping |-> mapping, index |-> index, ret |-> Raise("ImportError")]
    ELSE IF ~mapping
    THEN [mapping |-> mapping, index |-> index, ret |-> None]
    ELSE [mapping |-> FALSE, index |-> EmptyMap, ret |-> Ok("acknowledged")]

\* DocESBackend.query: the feeder, or None when the call of doc_feeder raised.
\* [feeder, ret]
ES_query(index, old, raised) ==
    IF raised THEN [feeder |-> old, ret |-> None]
    ELSE [feeder |-> ESIndexer_doc_feeder(index), ret |-> Ok("iterator")]

\* the caller takes the next result of the iterator query returned; the
\* scroll request behind it may fail.  [feeder, ret]
feeder_next(f, fails) ==
    IF fails THEN [feeder |-> NoFeeder, ret |-> Raise("TransportError")]
    ELSE IF f.hits = <<>> THEN [feeder |-> NoFeeder, ret |-> None]    \* exhausted
    ELSE [feeder |-> [f EXCEPT !.hits = Tail(@)], ret |-> Ok(Head(f.hits))]

\* `not v` of an option: unset (None) and the empty string are false
OptionValues == {PyNone, "", "set"}
Truthy(v) == v # PyNone /\ v # ""

\* DocBackendOptions as create_from_options reads it
Options == [es_index : OptionValues, es_host : OptionValues, es_doc_type : OptionValues]

\* faulty variant: a factory that looks at es_index only
ES_create_from_index_only(options) ==
    IF ~Truthy(options.es_index) THEN Raise("Exception")
    ELSE Ok([index |-> options.es_index, doc_type |-> options.es_doc_type,
             es_host |-> options.es_host])

\* DocESBackend.create_from_options: the backend over
\* ESIndexer(index, doc_type, es_host), or an Exception
ES_create_from_options(options) ==
    IF ~Truthy(options.es_index) \/ ~Truthy(options.es_host) \/ ~Truthy(options.es_doc_type)
    THEN Raise("Exception")
    ELSE Ok([index |-> options.es_index, doc_type |-> options.es_doc_type,
             es_host |-> options.es_host])

DocESBackend_prepare ==
    /\ backend = "es" /\ last = NoCall
    /\ es_mapping' = TRUE
    /\ last' = Called("prepare", [none |-> 0], None)
    /\ UNCHANGED <<env, providerVars, memoryVars, mongoVars, couchVars, es_index, feeder>>

DocESBackend_insert ==
    /\ backend = "es" /\ last = NoCall
    /\ \E doc_li \in SeqsUpTo(NewDocs, MaxDocs) :
         /\ es_index' = ESIndexer_add_docs(es_index, doc_li)
         /\ es_mapping' = (es_mapping \/ doc_li # <<>>)
         /\ last' = Called("insert", [docs |-> doc_li], None)
    /\ UNCHANGED <<env, providerVars, memoryVars, mongoVars, couchVars, feeder>>

DocESBackend_drop ==
    /\ backend = "es" /\ last = NoCall
    /\ LET out == ES_drop(utils_es, es_mapping, es_index)
       IN  /\ es_mapping' = out.mapping
           /\ es_index' = out.index
           /\ last' = Called("drop", [none |-> 0], out.ret)
    /\ UNCHANGED <<env, providerVars, memoryVars, mongoVars, couchVars, feeder>>

DocESBackend_get_id_list ==
    /\ backend = "es" /\ last = NoCall
    /\ last' = Called("get_id_list", [none |-> 0], Ok(DOMAIN es_index))
    /\ UNCHANGED <<env, providerVars, memoryVars, mongoVars, couchVars, esVars>>

DocESBackend_get_from_id ==
    /\ backend = "es" /\ last = NoCall
    /\ \E id \in QueryIds :
         last' = Called("get_from_id", [id |-> id], ESIndexer_get(es_index, id))
    /\ UNCHANGED <<env, providerVars, memoryVars, mongoVars, couchVars, esVars>>

DocESBackend_query ==
    /\ backend = "es" /\ last = NoCall
    /\ \E raised \in BOOLEAN :
         LET out == ES_query(es_index, feeder, raised)
         IN  /\ feeder' = out.feeder
             /\ last' = Called("query", [none |-> 0], out.ret) @@ [failed |-> raised]
    /\ UNCHANGED <<env, providerVars, memoryVars, mongoVars, couchVars, es_mapping, es_index>>

\* the caller of query consumes the iterator it got
DocESBackend_query_next ==
    /\ backend = "es" /\ last = NoCall
    /\ feeder.live
    /\ \E fails \in BOOLEAN :
         LET out == feeder_next(feeder, fails)
         IN  /\ feeder' = out.feeder
             /\ last' = Called("query_next", [none |-> 0], out.ret) @@ [failed |-> fails]
    /\ UNCHANGED <<env, providerVars, memoryVars, mongoVars, couchVars, es_mapping, es_index>>

DocESBackend_create_from_options ==
    /\ backend = "es" /\ last = NoCall
    /\ \E options \in Options :
         last' = Called("create_from_options", [options |-> options],
                        ES_create_from_options(options))
    /\ UNCHANGED <<env, providerVars, memoryVars, mongoVars, couchVars, esVars>>

InitES == InitAs("es")

ESNext ==
    \/ DocESBackend_prepare
    \/ DocESBackend_insert
    \/ DocESBackend_drop
    \/ DocESBackend_get_id_list
    \/ DocESBackend_get_from_id
    \/ DocESBackend_query
    \/ DocESBackend_query_next
    \/ DocESBackend_create_from_options
    \/ Return

SpecES == InitES /\ [][ESNext]_vars

---------------------------------------------------------------------------
(* Any of the four backends *)

Init == \E name \in {"memory", "mongo", "es", "couchdb"} : InitAs(name)

\* the calls of the four backends (those of MemoryNext, MongoNext, ESNext and
\* CouchNext), and the return of a call
Next ==
    \/ DocMemoryBackend_insert
    \/ DocMemoryBackend_update
    \/ DocMemoryBackend_drop
    \/ DocMemoryBackend_get_id_list
    \/ DocMemoryBackend_get_from_id
    \/ Caller_mutates
    \/ DocMongoBackend_insert
    \/ DocMongoBackend_update
    \/ DocMongoBackend_update_diff
    \/ DocMongoBackend_drop
    \/ DocMongoBackend_get_id_list
    \/ DocMongoBackend_get_from_id
    \/ DocMongoBackend_mget_from_ids
    \/ DocMongoBackend_count_from_ids
    \/ DocMongoBackend_remove_from_ids
    \/ DocMongoBackend_target_db
    \/ DocESBackend_prepare
    \/ DocESBackend_insert
    \/ DocESBackend_drop
    \/ DocESBackend_get_id_list
    \/ DocESBackend_get_from_id
    \/ DocESBackend_query
    \/ DocESBackend_query_next
    \/ DocESBackend_create_from_options
    \/ DocCouchDBBackend_prepare
    \/ DocCouchDBBackend_insert
    \/ DocCouchDBBackend_update
    \/ DocCouchDBBackend_drop
    \/ DocCouchDBBackend_finalize
    \/ DocCouchDBBackend_get_id_list
    \/ DocCouchDBBackend_get_from_id
    \/ Return

Spec == Init /\ [][Next]_vars

---------------------------------------------------------------------------
(* Claims *)

\* every field of p has p's value in doc
Reflects(doc, p) == \A f \in DOMAIN p : f \in DOMAIN doc /\ doc[f] = p[f]

\* doc and want agree on every field but the revision id
SameContent(doc, want) == Without(doc, {"_rev"}) = Without(want, {"_rev"})

IsCall(l, name, op) == backend = name /\ l.op = op

\* C1: ReplicatedStoreBackend ordering.  update(id, p1) on an id of the
\* store leaves the store as it is (get_from_id does not show p1) and puts
\* p1 in the cached copy; finalize then returns and writes every cached
\* copy of a stored id to the store, so that get_from_id shows p1 (after
\* the species filter finalize applies to homologene.genes).
C1_UpdateShowsAfterFinalize ==
    [][/\ (IsCall(last', "couchdb", "update") /\ db_exists
              /\ last'.arg.id \in DOMAIN target_db)
          => /\ target_db' = target_db
             /\ last'.arg.id \in DOMAIN _doc_cache'
             /\ Reflects(_doc_cache'[last'.arg.id], last'.arg.extra_doc)
       /\ (IsCall(last', "couchdb", "finalize") /\ db_exists)
          => /\ last'.ret.kind # "raise"
             /\ \A id \in DOMAIN _doc_cache \cap DOMAIN target_db :
                   /\ id \in DOMAIN target_db'
                   /\ SameContent(target_db'[id], trim_doc(_doc_cache[id], species_li))
      ]_vars

\* what get_id_list() of the backend returns, as a set of ids
get_id_list ==
    CASE backend = "memory" -> DOMAIN target_dict
      [] backend = "mongo" -> Range_(Mongo_get_id_list(collection))
      [] backend = "es" -> DOMAIN es_index
      [] OTHER -> DOMAIN target_db

DocIds(docs) == {docs[i]["_id"] : i \in DOMAIN docs}

\* C2 as stated: after insert(D) returns, every id of D is in get_id_list(),
\* whatever the store held before.
C2_InsertedIdsListedAlways ==
    [][(last'.op = "insert" /\ last'.ret.kind # "raise")
          => DocIds(last'.arg.docs) \subseteq get_id_list']_vars

\* C2 amended: after insert(D) returns, every id of D is in get_id_list()
\* for the memory and the replicated backend whatever the store held; for
\* the document store backend when insert returned a count (insert_many
\* did not raise).
C2_InsertedIdsListed ==
    [][(/\ last'.op = "insert" /\ last'.ret.kind # "raise"
        /\ backend = "mongo" => last'.ret.kind = "ok")
          => DocIds(last'.arg.docs) \subseteq get_id_list']_vars

\* an insert of two documents has returned and both ids are listed
C2_Witness ==
    /\ last.op = "insert" /\ backend = "mongo"
    /\ last.ret = Ok(2)
    /\ DocIds(last.arg.docs) = {"A", "B"}
    /\ get_id_list = {"A", "B"}

\* C3: update(id, patch) on an id that is not in the store is a no-op in the
\* memory and in the replicated backend (its database existing): no error,
\* the store is unchanged, no document of that id is created in the store
\* or in the cache, the other cached documents are unchanged, and a later
\* finalize adds no id to the store.
C3_UpdateAbsentIsNoOp ==
    [][/\ (IsCall(last', "memory", "update") /\ last'.arg.id \notin DOMAIN target_dict)
          => /\ target_dict' = target_dict
             /\ last'.ret = None
       /\ (IsCall(last', "couchdb", "update") /\ db_exists
              /\ last'.arg.id \notin DOMAIN target_db)
          => /\ target_db' = target_db
             /\ last'.ret = None
             /\ last'.arg.id \in DOMAIN _doc_cache' => last'.arg.id \in DOMAIN _doc_cache
             /\ \A j \in DOMAIN _doc_cache \ {last'.arg.id} :
                   j \in DOMAIN _doc_cache' /\ _doc_cache'[j] = _doc_cache[j]
       /\ IsCall(last', "couchdb", "finalize")
          => DOMAIN target_db' \subseteq DOMAIN target_db
      ]_vars

\* an update of an id the non-empty store does not hold has returned
C3_Witness ==
    /\ IsCall(last, "couchdb", "update") /\ db_exists
    /\ last.arg.id \notin DOMAIN target_db
    /\ target_db # EmptyMap
    /\ _doc_cache = target_db
    /\ last.ret = None

\* the document of a collection with the given id
DocOf(coll, id) == coll[CHOOSE i \in DOMAIN coll : coll[i]["_id"] = id]

\* ceil(n / k)
CeilDiv(n, k) == (n + k - 1) \div k

\* the chunks of a chunked call, joined
RECURSIVE Flatten(_)
Flatten(chunks) == IF chunks = <<>> THEN <<>> ELSE Head(chunks) \o Flatten(Tail(chunks))

\* C4: mget_from_ids(ids) returns stored documents, and the ids of the
\* result are ids with the ids that are not stored removed (same order,
\* repeats kept).
C4_MgetKeepsInputOrder ==
    IsCall(last, "mongo", "mget_from_ids") =>
        LET res == last.ret.val
        IN  /\ [i \in DOMAIN res |-> res[i]["_id"]]
                  = SelectSeq(last.arg.ids, LAMBDA id : id \in IdsOf(collection))
            /\ \A i \in DOMAIN res : res[i] \in Range_(collection)

\* mget_from_ids([B, Z, A]) on a collection holding A before B returned B, A
C4_Witness ==
    /\ IsCall(last, "mongo", "mget_from_ids")
    /\ last.arg.ids = <<"B", "Z", "A">>
    /\ Len(collection) = 2 /\ collection[1]["_id"] = "A"
    /\ Len(last.ret.val) = 2 /\ last.ret.val[1]["_id"] = "B"

\* C5: count_from_ids(ids, step), no query of which fails, issues
\* ceil(len(ids)/step) chunk queries and returns what one query over all of
\* ids would count.
C5_ChunkedCountIsUnchunkedCount ==
    (IsCall(last, "mongo", "count_from_ids") /\ last.failed_chunk = 0) =>
        /\ Len(last.calls) = CeilDiv(Len(last.arg.ids), last.arg.step)
        /\ last.ret.val = Len(find_in(collection, Range_(last.arg.ids)))

\* C6: remove_from_ids(ids, step), no delete of which fails, issues
\* ceil(len(ids)/step) chunk deletes, the chunks are ids cut into consecutive
\* pieces of at most step ids (every position of ids is in exactly one), and
\* the store ends as one delete of all of ids leaves it.
C6_RemoveInChunks ==
    [][(IsCall(last', "mongo", "remove_from_ids") /\ last'.failed_chunk = 0) =>
          /\ Len(last'.calls) = CeilDiv(Len(last'.arg.ids), last'.arg.step)
          /\ Flatten(last'.calls) = last'.arg.ids
          /\ \A k \in DOMAIN last'.calls :
                Len(last'.calls[k]) \in 1..last'.arg.step
          /\ collection' = remove_in(collection, Range_(last'.arg.ids))
      ]_vars

\* remove_from_ids of five ids with step 2 made three calls and removed A
C6_Witness ==
    /\ IsCall(last, "mongo", "remove_from_ids")
    /\ Len(last.arg.ids) = 5 /\ last.arg.step = 2
    /\ Len(last.calls) = 3 /\ last.ret = None
    /\ last.arg.ids[5] = "A"
    /\ IdsOf(collection) = {"B"}

\* the call is update_diff and its target is stored
DiffOnStored(l, coll) ==
    IsCall(l, "mongo", "update_diff") /\ l.arg.diff["_id"] \in IdsOf(coll)

\* the fields update_diff is asked to write or remove
Touched(diff, extra) ==
    DOMAIN diff.add \cup DOMAIN diff.update \cup DOMAIN extra \cup diff.delete

\* C7 as stated: after update_diff on a stored document every field of add,
\* of update and of extra has the given value, every field of delete is
\* gone, and every other field is as it was.
C7_DiffAppliedAsGiven ==
    [][DiffOnStored(last', collection) =>
          LET diff == last'.arg.diff
              extra == last'.arg.extra
              old == DocOf(collection, diff["_id"])
              new == DocOf(collection', diff["_id"])
          IN  /\ Reflects(new, diff.add)
              /\ Reflects(new, diff.update)
              /\ Reflects(new, extra)
              /\ diff.delete \cap DOMAIN new = {}
              /\ \A f \in (DOMAIN old \cup DOMAIN new) \ Touched(diff, extra) :
                    f \in DOMAIN old /\ f \in DOMAIN new /\ new[f] = old[f]
      ]_vars

\* the document C7 (amended) expects: untouched when extra names a deleted
\* field, else add, then update, then extra written over it and the
\* deleted fields removed
Expected(old, diff, extra) ==
    IF DOMAIN extra \cap diff.delete # {} THEN old
    ELSE LET written == [f \in DOMAIN diff.add \cup DOMAIN diff.update \cup DOMAIN extra |->
                            IF f \in DOMAIN extra THEN extra[f]
                            ELSE IF f \in DOMAIN diff.update THEN diff.update[f]
                            ELSE diff.add[f]]
             kept == (DOMAIN old \cup DOMAIN written) \ diff.delete
         IN  [f \in kept |-> IF f \in DOMAIN written THEN written[f] ELSE old[f]]

\* C7 (amended): after update_diff on a stored document, when extra names
\* no deleted field, the document is the original with the fields of add,
\* update and extra set (extra winning over the diff on a shared field), the
\* fields of delete removed and the rest unchanged; when extra names a
\* deleted field the call raises and the document is unchanged.  No other
\* document changes.
C7_DiffApplied ==
    [][DiffOnStored(last', collection) =>
          LET diff == last'.arg.diff
              extra == last'.arg.extra
          IN  /\ IdsOf(collection') = IdsOf(collection)
              /\ DocOf(collection', diff["_id"])
                    = Expected(DocOf(collection, diff["_id"]), diff, extra)
              /\ DOMAIN extra \cap diff.delete # {} => last'.ret.kind = "raise"
              /\ \A id \in IdsOf(collection) \ {diff["_id"]} :
                    DocOf(collection', id) = DocOf(collection, id)
      ]_vars

\* the diff add {x:1}, update {y:2}, delete [z] was applied and left
\* {_id, x:1, y:2}
C7_Witness ==
    /\ IsCall(last, "mongo", "update_diff")
    /\ last.arg.diff.add = ("x" :> 1)
    /\ last.arg.diff.update = ("y" :> 2)
    /\ last.arg.diff.delete = {"z"}
    /\ last.arg.extra = EmptyMap
    /\ last.ret = Ok(1)
    /\ DocOf(collection, last.arg.diff["_id"]) = Doc(last.arg.diff["_id"], ("x" :> 1) @@ ("y" :> 2))

\* C8: update_diff with empty add, update and delete and no extra completes
\* without an error and changes no document.
C8_EmptyDiffIsNoOp ==
    [][(/\ IsCall(last', "mongo", "update_diff")
        /\ Touched(last'.arg.diff, last'.arg.extra) = {})
          => /\ last'.ret.kind # "raise"
             /\ collection' = collection
      ]_vars

\* C9: update_diff on an id that is not stored changes nothing and returns
\* 0; on a stored id only that document may change; the call returns 0 or 1.
C9_DiffNeverUpserts ==
    [][IsCall(last', "mongo", "update_diff") =>
          LET id == last'.arg.diff["_id"]
          IN  /\ id \notin IdsOf(collection)
                    => collection' = collection /\ last'.ret = Ok(0)
              /\ IdsOf(collection') = IdsOf(collection)
              /\ \A other \in IdsOf(collection) \ {id} :
                    DocOf(collection', other) = DocOf(collection, other)
              /\ last'.ret \in {Ok(0), Ok(1)}
      ]_vars

\* the documents of a batch written over a document, in order
RECURSIVE FoldMerge(_, _)
FoldMerge(d, docs) ==
    IF docs = <<>> THEN d ELSE FoldMerge(Merge(d, Head(docs)), Tail(docs))

\* C10: update(docs, upsert) of a non-empty batch raises nothing; without
\* upsert the stored ids are unchanged and the call returns the number of
\* batch documents whose id was stored; with upsert the stored ids gain the
\* batch's ids and the call returns len(docs); every stored document ends as
\* its old fields (none for a created one) overwritten by the batch
\* documents with its id, in order.
C10_UpdateUpsert ==
    [][(IsCall(last', "mongo", "update") /\ last'.arg.docs # <<>>) =>
          LET docs == last'.arg.docs
              before == IdsOf(collection)
              after == IdsOf(collection')
          IN  /\ last'.ret.kind = "ok"
              /\ ~last'.arg.upsert =>
                    /\ after = before
                    /\ last'.ret.val
                          = Cardinality({i \in DOMAIN docs : docs[i]["_id"] \in before})
              /\ last'.arg.upsert =>
                    /\ after = before \cup DocIds(docs)
                    /\ last'.ret.val = Len(docs)
              /\ \A id \in after :
                    DocOf(collection', id)
                       = FoldMerge(IF id \in before THEN DocOf(collection, id)
                                   ELSE Doc(id, EmptyMap),
                                   SelectSeq(docs, LAMBDA d : d["_id"] = id))
      ]_vars

\* update([A.., B..]) without upsert on a store holding only A returned 1
\* and wrote A's field
C10_Witness ==
    /\ IsCall(last, "mongo", "update")
    /\ ~last.arg.upsert
    /\ Len(last.arg.docs) = 2
    /\ DocIds(last.arg.docs) = {"A", "B"}
    /\ IdsOf(collection) = {"A"}
    /\ last.ret = Ok(1)
    /\ Reflects(DocOf(collection, "A"), ("x" :> 1))

\* insert_many accepts the batch: it is not empty and none of its ids is
\* stored or occurs twice in it
Insertable(coll, docs) ==
    /\ docs # <<>>
    /\ DocIds(docs) \cap IdsOf(coll) = {}
    /\ Cardinality(DocIds(docs)) = Len(docs)

\* C11: DocMongoBackend.insert(docs) never raises: it returns the number of
\* inserted ids when insert_many accepts the batch and None when insert_many
\* raises.
C11_InsertNeverRaises ==
    [][IsCall(last', "mongo", "insert") =>
          /\ last'.ret.kind # "raise"
          /\ Insertable(collection, last'.arg.docs) => last'.ret = Ok(Len(last'.arg.docs))
          /\ ~Insertable(collection, last'.arg.docs) => last'.ret = None
      ]_vars

\* the target of the backend holds no document
TargetEmpty ==
    CASE backend = "memory" -> target_dict = EmptyMap
      [] backend = "mongo" -> collection = <<>>
      [] backend = "es" -> es_index = EmptyMap
      [] OTHER -> target_db = EmptyMap

\* the target of the backend is empty or gone
TargetGone ==
    CASE backend = "memory" -> target_dict = EmptyMap
      [] backend = "mongo" -> collection = <<>>
      [] backend = "es" -> ~es_mapping /\ es_index = EmptyMap
      [] OTHER -> ~db_exists /\ target_db = EmptyMap

\* C12: drop() of any backend on a target that is already empty or absent
\* (a second drop() included) returns without an exception and leaves the
\* target empty or absent.
C12_DropIdempotent ==
    [][(last'.op = "drop" /\ TargetEmpty) =>
          /\ last'.ret.kind # "raise"
          /\ TargetGone'
      ]_vars

\* C13: DocMemoryBackend keeps no reference to a document object of its
\* caller: a field the caller writes into an object it inserted does not
\* change what get_from_id returns, and update leaves every object the
\* caller references as it was.
C13_NoSharedDocuments ==
    [][/\ IsCall(last', "memory", "caller_mutates")
            => Memory_get_from_id(target_dict', last'.arg.id)
                  = Memory_get_from_id(target_dict, last'.arg.id)
       /\ IsCall(last', "memory", "update")
            => \A id \in held : target_dict'[id] = target_dict[id]
      ]_vars

\* the last document of a batch that carries the id
LastWith(docs, id) ==
    docs[CHOOSE i \in DOMAIN docs :
            /\ docs[i]["_id"] = id
            /\ \A j \in DOMAIN docs : docs[j]["_id"] = id => j <= i]

\* C14: DocMemoryBackend.insert raises nothing; after it get_from_id(id)
\* returns, for every id of the batch, the last document of the batch that
\* carries the id, the documents under other ids are as before, and
\* get_id_list holds the ids stored before and the ids of the batch, each
\* once.
C14_LastWriteWins ==
    [][IsCall(last', "memory", "insert") =>
          LET docs == last'.arg.docs
          IN  /\ last'.ret = None
              /\ \A id \in DocIds(docs) :
                    Memory_get_from_id(target_dict', id) = Ok(LastWith(docs, id))
              /\ \A id \in DOMAIN target_dict \ DocIds(docs) :
                    Memory_get_from_id(target_dict', id) = Ok(target_dict[id])
              /\ get_id_list' = DOMAIN target_dict \cup DocIds(docs)
      ]_vars

\* one batch held two different documents with the same id, stored before,
\* and the second is the one stored
C14_Witness ==
    /\ IsCall(last, "memory", "insert")
    /\ Len(last.arg.docs) = 2
    /\ last.arg.docs[1]["_id"] = last.arg.docs[2]["_id"]
    /\ last.arg.docs[1] # last.arg.docs[2]
    /\ target_dict[last.arg.docs[2]["_id"]] = last.arg.docs[2]
    /\ Cardinality(DOMAIN target_dict) = 2

\* C15: get_from_id of an id that is not stored raises a not-found error in
\* DocMemoryBackend, the dict unchanged, and returns None without raising in
\* every other backend.
C15_GetAbsentId ==
    [][(last'.op = "get_from_id" /\ last'.arg.id \notin get_id_list) =>
          IF backend = "memory"
          THEN last'.ret = Raise("KeyError") /\ target_dict' = target_dict
          ELSE last'.ret = None
      ]_vars

\* C16: DocCouchDBBackend.update scans the whole store (the view _all_docs)
\* on the first update call of an instance, or the first after a finalize,
\* and on no later one, whatever the store holds.
C16_CacheLoadedOnce ==
    [][IsCall(last', "couchdb", "update") => (last'.scan <=> ~updated)]_vars

\* C17: trimming the trimmed cache again (same species list) changes
\* nothing: two runs of _homologene_trimming leave the cache as one run does.
C17_TrimmingIdempotent ==
    backend = "couchdb" =>
        LET once == trimming_run(python, _doc_cache, species_li)
        IN  trimming_run(python, once, species_li) = once

\* the cache holds a document the trimming changes, with two entries of
\* other species in a row
C17_Witness ==
    /\ backend = "couchdb"
    /\ \E id \in DOMAIN _doc_cache :
          /\ "homologene" \in DOMAIN _doc_cache[id]
          /\ _doc_cache[id]["homologene"] = HForeign
          /\ trim_doc(_doc_cache[id], species_li)["homologene"]["genes"] = <<>>
    /\ trimming_run(python, _doc_cache, species_li) # _doc_cache

\* the nine taxon ids finalize keeps
NineTaxa == {9606, 10090, 10116, 7227, 6239, 7955, 3702, 8364, 9823}

\* a document with homologene.genes, if any, cut down to the nine taxa
KeepNine(doc) ==
    IF "homologene" \in DOMAIN doc /\ "genes" \in DOMAIN doc["homologene"]
    THEN [doc EXCEPT !["homologene"] =
             [@ EXCEPT !["genes"] = SelectSeq(@, LAMBDA g : g[1] \in NineTaxa)]]
    ELSE doc

\* C18: finalize cuts homologene.genes of every cached document down to the
\* entries of the nine taxa, in their order, and changes nothing else of a
\* cached document.
C18_FinalizeKeepsNineTaxa ==
    [][IsCall(last', "couchdb", "finalize") =>
          /\ DOMAIN last'.docs = DOMAIN _doc_cache
          /\ \A id \in DOMAIN _doc_cache : last'.docs[id] = KeepNine(_doc_cache[id])
      ]_vars

\* an option that is unset or empty
Missing(v) == v \in {PyNone, ""}

\* C19: create_from_options raises and builds no backend when es_index,
\* es_host or es_doc_type is unset or empty, and builds the backend over
\* the three values when all of them are present.
C19_FactoryValidatesOptions ==
    IsCall(last, "es", "create_from_options") =>
        LET o == last.arg.options
        IN  IF Missing(o.es_index) \/ Missing(o.es_host) \/ Missing(o.es_doc_type)
            THEN last.ret.kind = "raise"
            ELSE last.ret = Ok([index |-> o.es_index, doc_type |-> o.es_doc_type,
                                es_host |-> o.es_host])

\* options with an index and a document type but an empty host were refused
C19_Witness ==
    /\ IsCall(last, "es", "create_from_options")
    /\ last.arg.options = [es_index |-> "set", es_host |-> "", es_doc_type |-> "set"]
    /\ last.ret = Raise("Exception")

\* C20: no failure of the underlying query reaches the caller of
\* DocESBackend.query, neither at the call nor while the caller consumes the
\* results; a failed query yields nothing.
C20_QueryFailSilent ==
    [][(IsCall(last', "es", "query") \/ IsCall(last', "es", "query_next")) =>
          /\ last'.ret.kind # "raise"
          /\ last'.failed => last'.ret = None
      ]_vars

\* C21: finalize of the replicated backend (its database existing) with a
\* non-empty cache returns, having submitted every cached document to the
\* store exactly once in upload requests of at most UploadStep documents
\* that partition the cache values; it empties the cache after the last
\* upload and only then commits and compacts.  With an empty cache it
\* uploads nothing and commits and compacts.
C21_FinalizeUploadsOnce ==
    [][(IsCall(last', "couchdb", "finalize") /\ db_exists) =>
          IF _doc_cache # EmptyMap
          THEN LET sent == Flatten(last'.uploads)
               IN  /\ last'.ret.kind # "raise"
                   /\ Len(sent) = Cardinality(DOMAIN _doc_cache)
                   /\ \A id \in DOMAIN _doc_cache :
                         \E k \in DOMAIN sent : sent[k] = last'.docs[id]
                   /\ \A k \in DOMAIN last'.uploads :
                         Len(last'.uploads[k]) \in 1..UploadStep
                   /\ _doc_cache' = EmptyMap
                   /\ last'.calls = [k \in DOMAIN last'.uploads |-> "update"]
                                       \o <<"clear", "commit", "compact">>
          ELSE /\ last'.uploads = <<>>
               /\ last'.calls = <<"commit", "compact">>
      ]_vars

\* C22 as stated: a DocMongoBackend constructed with a provider has not
\* invoked it when construction is over, invokes it on the first access of
\* target_db, and invokes it at most once over all accesses.
C22_ProviderInvokedAtMostOnce ==
    /\ _target_db_provider.calls = 0
    /\ [][(IsCall(last', "mongo", "target_db") /\ _target_db_provider.calls = 0)
             => _target_db_provider'.calls = 1]_vars
    /\ [](_target_db_provider.calls <= 1)

\* C22 amended: a DocMongoBackend constructed with a provider has not
\* invoked it when construction is over; only an access of target_db invokes
\* it; an access made while no handle is held (the first access, and every
\* access after the provider raised or returned None) invokes it once and
\* keeps what it returned; an access made once a handle is held returns that
\* handle and does not invoke the provider.
C22_ProviderUntilResolved ==
    /\ _target_db_provider.calls = 0 /\ _target_db = PyNone
    /\ [][/\ _target_db_provider'.calls # _target_db_provider.calls
               => IsCall(last', "mongo", "target_db")
          /\ (IsCall(last', "mongo", "target_db") /\ _target_db = PyNone)
               => /\ last'.invoked
                  /\ _target_db_provider'.calls = _target_db_provider.calls + 1
                  /\ _target_db' = IF last'.ret.kind = "ok" THEN last'.ret.val ELSE PyNone
          /\ (IsCall(last', "mongo", "target_db") /\ _target_db # PyNone)
               => /\ ~last'.invoked
                  /\ _target_db_provider' = _target_db_provider
                  /\ _target_db' = _target_db
                  /\ last'.ret = Ok(_target_db)
          ]_vars

\* an access of target_db has returned the handle the provider resolved on
\* an earlier access, without invoking the provider
C22_Witness ==
    /\ IsCall(last, "mongo", "target_db")
    /\ _target_db_provider.set /\ _target_db_provider.calls = 1
    /\ ~last.invoked
    /\ last.ret = Ok(Handle)

\* the first k chunks of ids, in order: ids[0:step], ids[step:2*step], ...
FirstChunks(ids, step, k) == [j \in 1..k |-> Slice(ids, (j - 1) * step, step)]

\* C23: when the store call for chunk k of count_from_ids or remove_from_ids
\* fails, the call raises that error to the caller; the store calls made are
\* the chunks 1..k in order, each once (no chunk after k, no retry); for
\* count_from_ids the store is unchanged, for remove_from_ids the store is
\* what the deletes of chunks 1..k-1 leave.
C23_FailedChunkAborts ==
    [][((IsCall(last', "mongo", "count_from_ids") \/ IsCall(last', "mongo", "remove_from_ids"))
          /\ last'.failed_chunk # 0) =>
          LET k == last'.failed_chunk
              ids == last'.arg.ids
              step == last'.arg.step
          IN  /\ last'.ret = StoreError
              /\ last'.calls = FirstChunks(ids, step, k)
              /\ IsCall(last', "mongo", "count_from_ids") => collection' = collection
              /\ IsCall(last', "mongo", "remove_from_ids") =>
                    collection' = remove_in(collection,
                                            Range_(Flatten(FirstChunks(ids, step, k - 1))))
      ]_vars

\* remove_from_ids(<<A, Z, A>>, step 1) has failed on its second chunk of
\* three: two store calls were made, the error reached the caller, and the
\* first chunk's id A is gone from the store, which still holds B
C23_Witness ==
    /\ IsCall(last, "mongo", "remove_from_ids")
    /\ last.failed_chunk = 2 /\ last.ret = StoreError
    /\ last.arg.step = 1 /\ last.arg.ids = <<"A", "Z", "A">>
    /\ last.calls = <<<<"A">>, <<"Z">>>>
    /\ IdsOf(collection) = {"B"}

\* C24: in the replicated backend (its database existing), whatever inserts
\* and updates were interleaved, finalize returns and leaves in the store's
\* document of every id the patches update was given for that id while the
\* store held it (homologene.genes cut down by finalize's species filter);
\* and finalize changes a stored document only if the cache holds the
\* revision of it that is stored, so it does not put back an older one.
C24_NoUpdateLost ==
    [][(IsCall(last', "couchdb", "finalize") /\ db_exists) =>
          /\ pending.patches # <<>> => last'.ret.kind # "raise"
          /\ \A id \in DOMAIN pending.patches :
                /\ id \in DOMAIN target_db'
                /\ Reflects(target_db'[id], trim_doc(pending.patches[id], species_li))
          /\ \A id \in DOMAIN target_db :
                \/ id \in DOMAIN target_db' /\ target_db'[id] = target_db[id]
                \/ /\ id \in DOMAIN _doc_cache
                   /\ _doc_cache[id]["_rev"] = target_db[id]["_rev"]
      ]_vars

====
